---- MODULE Spec2Model ----
(***************************************************************************)
(* Model of the jotalot note editor's inline-completion control loop:      *)
(*   - useGeminiCopilot (src/hooks/use-gemini-copilot.ts): debounce,       *)
(*     rate limiting, retry timer, cooldown, the CopilotState;             *)
(*   - GeminiService (same file): the completion client;                   *)
(*   - NoteEditor (src/components/editor/note-editor.tsx): the buffer,     *)
(*     the SuggestionContext, the DisplaySuggestion, Tab and Escape;       *)
(*   - Home (src/app/page.tsx): the header, which mounts its own instance  *)
(*     of useGeminiCopilot and wires the toggle button to it.              *)
(*                                                                         *)
(* One action is one task of the browser's event loop (an input event, a   *)
(* timer callback, the settling of the completion promise) together with   *)
(* the React render it causes and the effects of that render.  State       *)
(* updates made in one task are batched into one render (React 18).  A     *)
(* callback created in a render reads the values of THAT render: the       *)
(* retry timer's callback carries them as its closure.                     *)
(*                                                                         *)
(* Texts are sequences of one-character strings.  An optional value        *)
(* (T | null) is the set {} or {v}.  Times are in milliseconds.            *)
(***************************************************************************)
EXTENDS Integers, Sequences, FiniteSets, TLC

(* ------------------------------------------------------------------ *)
(* Program constants                                                  *)
(* ------------------------------------------------------------------ *)
DebounceDelay == 500
\* variant: the interval halved
HalvedRequestInterval == 2 * DebounceDelay
MIN_REQUEST_INTERVAL == 2000
cooldownDuration == 60000
MinContextLength == 20
MaxSuggestionLength == 100
AutoSaveDelay == 3000

(* ------------------------------------------------------------------ *)
(* Bounds of the model                                                *)
(* ------------------------------------------------------------------ *)
\* the clock advances in steps of Tick, at most MaxTicks times: far enough
\* for the auto-save debounce of an edit made at page load to fire
MaxTicks == 6
\* inputs of the user in one run: change events of the textarea, cursor
\* movements, key presses that find no ghost text, clicks on the toggle,
\* keys entered in the header, reloads
MaxInputs == 3
\* length of the note found in storage at load
NoteLen == 19
\* change events of one run of the typing scenario
MaxEdits == 4
\* characters of the last lines of a note of the overlay scenario
MaxLine == 2

Tick == DebounceDelay
\* Date.now() at page load: far from 0, the initial lastRequestTime
PageLoadTime == 2 * cooldownDuration
EndOfTime == PageLoadTime + MaxTicks * Tick

\* characters the user types
Chars == {"a", "b"}
\* the character typed in the burst scenario (non-whitespace)
BurstChar == "a"
Whitespace == {" ", "\n"}

(* ------------------------------------------------------------------ *)
(* Optional values and strings                                        *)
(* ------------------------------------------------------------------ *)
None == {}
Some(x) == {x}
The(o) == CHOOSE x \in o : TRUE

Min(a, b) == IF a < b THEN a ELSE b
Max(a, b) == IF a > b THEN a ELSE b

Rep(c, n) == [i \in 1..n |-> c]

\* String.prototype.slice(from, to) for 0 <= from, 0 <= to
Slice(s, from, to) ==
    LET f == Min(from, Len(s))
        t == Min(to, Len(s))
    IN  IF t <= f THEN <<>> ELSE SubSeq(s, f + 1, t)

\* String.prototype.slice(from) / substring(from)
SliceFrom(s, from) == Slice(s, from, Len(s))

StartsWith(s, p) == Len(p) <= Len(s) /\ SubSeq(s, 1, Len(p)) = p

\* String.prototype.includes
Includes(s, p) ==
    \E i \in 0..(Len(s) - Len(p)) : SubSeq(s, i + 1, i + Len(p)) = p

RECURSIVE TrimStart(_)
TrimStart(s) ==
    IF s # <<>> /\ Head(s) \in Whitespace THEN TrimStart(Tail(s)) ELSE s

RECURSIVE TrimEnd(_)
TrimEnd(s) ==
    IF s # <<>> /\ s[Len(s)] \in Whitespace
    THEN TrimEnd(SubSeq(s, 1, Len(s) - 1)) ELSE s

\* String.prototype.trim
Trim(s) == TrimEnd(TrimStart(s))

(* ------------------------------------------------------------------ *)
(* State                                                              *)
(* ------------------------------------------------------------------ *)
VARIABLES
    now,                     \* Date.now()
    state,                   \* CopilotState of the editor's useGeminiCopilot
    page,                    \* CopilotState of the header's useGeminiCopilot
    copilotEnabledPref,      \* storage: userPreferences.copilotEnabled
    debouncedText,           \* input of the 500 ms debounce (text)
    debouncedCursor,         \* input of the 500 ms debounce (cursor)
    debouncedRequestText,    \* output of the debounce (text)
    debouncedRequestCursor,  \* output of the debounce (cursor)
    textTimer,               \* the text debounce's timer: None or {firesAt}
    cursorTimer,             \* the cursor debounce's timer: None or {firesAt}
    lastRequestText,
    lastRequestTime,
    rateLimitCooldownUntil,
    pendingRetryTimeout,     \* None or {[firesAt, closure]}
    pendingRetryData,        \* None or {[text, cursor]}
    inflight,                \* completion calls not yet settled
    content,                 \* the buffer
    selectionStart,          \* the textarea's cursor
    suggestionContext,       \* None or {[originalContent, cursorPosition, suggestion]}
    displaySuggestion,       \* None or {ghost text}
    initialized,             \* geminiService.isInitialized()
    geminiApiKey,            \* storage: a Gemini API key is stored
    noteContent,             \* storage: the persisted note
    savedContent,            \* the content the editor last saved
    debouncedContent,        \* output of the 3000 ms debounce of content
    saveTimer,               \* that debounce's timer: None or {firesAt}
    hist                     \* observations: inputs made, dispatches, last change

vars == <<now, state, page, copilotEnabledPref, debouncedText, debouncedCursor,
          debouncedRequestText, debouncedRequestCursor, textTimer, cursorTimer,
          lastRequestText, lastRequestTime, rateLimitCooldownUntil,
          pendingRetryTimeout, pendingRetryData, inflight, content,
          selectionStart, suggestionContext, displaySuggestion, initialized,
          geminiApiKey, noteContent, savedContent, debouncedContent, saveTimer,
          hist>>

\* the state as one record, which the handlers below transform
World ==
    [now |-> now, state |-> state, page |-> page,
     copilotEnabledPref |-> copilotEnabledPref,
     debouncedText |-> debouncedText, debouncedCursor |-> debouncedCursor,
     debouncedRequestText |-> debouncedRequestText,
     debouncedRequestCursor |-> debouncedRequestCursor,
     textTimer |-> textTimer, cursorTimer |-> cursorTimer,
     lastRequestText |-> lastRequestText, lastRequestTime |-> lastRequestTime,
     rateLimitCooldownUntil |-> rateLimitCooldownUntil,
     pendingRetryTimeout |-> pendingRetryTimeout,
     pendingRetryData |-> pendingRetryData, inflight |-> inflight,
     content |-> content, selectionStart |-> selectionStart,
     suggestionContext |-> suggestionContext,
     displaySuggestion |-> displaySuggestion, initialized |-> initialized,
     geminiApiKey |-> geminiApiKey, noteContent |-> noteContent,
     savedContent |-> savedContent, debouncedContent |-> debouncedContent,
     saveTimer |-> saveTimer, hist |-> hist]

Becomes(w) ==
    /\ now' = w.now
    /\ state' = w.state
    /\ page' = w.page
    /\ copilotEnabledPref' = w.copilotEnabledPref
    /\ debouncedText' = w.debouncedText
    /\ debouncedCursor' = w.debouncedCursor
    /\ debouncedRequestText' = w.debouncedRequestText
    /\ debouncedRequestCursor' = w.debouncedRequestCursor
    /\ textTimer' = w.textTimer
    /\ cursorTimer' = w.cursorTimer
    /\ lastRequestText' = w.lastRequestText
    /\ lastRequestTime' = w.lastRequestTime
    /\ rateLimitCooldownUntil' = w.rateLimitCooldownUntil
    /\ pendingRetryTimeout' = w.pendingRetryTimeout
    /\ pendingRetryData' = w.pendingRetryData
    /\ inflight' = w.inflight
    /\ content' = w.content
    /\ selectionStart' = w.selectionStart
    /\ suggestionContext' = w.suggestionContext
    /\ displaySuggestion' = w.displaySuggestion
    /\ initialized' = w.initialized
    /\ geminiApiKey' = w.geminiApiKey
    /\ noteContent' = w.noteContent
    /\ savedContent' = w.savedContent
    /\ debouncedContent' = w.debouncedContent
    /\ saveTimer' = w.saveTimer
    /\ hist' = w.hist

\* the state is w
Is(w) ==
    /\ now = w.now
    /\ state = w.state
    /\ page = w.page
    /\ copilotEnabledPref = w.copilotEnabledPref
    /\ debouncedText = w.debouncedText
    /\ debouncedCursor = w.debouncedCursor
    /\ debouncedRequestText = w.debouncedRequestText
    /\ debouncedRequestCursor = w.debouncedRequestCursor
    /\ textTimer = w.textTimer
    /\ cursorTimer = w.cursorTimer
    /\ lastRequestText = w.lastRequestText
    /\ lastRequestTime = w.lastRequestTime
    /\ rateLimitCooldownUntil = w.rateLimitCooldownUntil
    /\ pendingRetryTimeout = w.pendingRetryTimeout
    /\ pendingRetryData = w.pendingRetryData
    /\ inflight = w.inflight
    /\ content = w.content
    /\ selectionStart = w.selectionStart
    /\ suggestionContext = w.suggestionContext
    /\ displaySuggestion = w.displaySuggestion
    /\ initialized = w.initialized
    /\ geminiApiKey = w.geminiApiKey
    /\ noteContent = w.noteContent
    /\ savedContent = w.savedContent
    /\ debouncedContent = w.debouncedContent
    /\ saveTimer = w.saveTimer
    /\ hist = w.hist

(* ------------------------------------------------------------------ *)
(* Completion client (GeminiService)                                  *)
(* ------------------------------------------------------------------ *)
SpaceToken == <<"[", "S", "P", "A", "C", "E", "]">>

\* what model.generateContent(prompt) can do: answer with a text, or throw
TextOutcome(raw) == [kind |-> "text", text |-> raw, message |-> <<>>]
ThrowOutcome(msg) == [kind |-> "throw", text |-> <<>>, message |-> msg]

\* error messages, as sequences of words
Msg429 == <<"[", "429", "Too Many Requests", "]">>
MsgQuota == <<"quota", "exceeded">>
MsgNetwork == <<"fetch", "failed">>

RawResponses ==
    { <<"a", "b">>,                     \* a plain completion
      SpaceToken \o <<"b">>,            \* a new word, announced by the token
      <<" ">>,                          \* blank
      <<"a", "\n", "\n", "b">>,         \* contains a blank line
      Rep("a", MaxSuggestionLength + 1) \* too long
    }

ProviderOutcomes ==
    {TextOutcome(r) : r \in RawResponses}
        \cup {ThrowOutcome(m) : m \in {Msg429, MsgQuota, MsgNetwork}}

\* the error message names provider throttling (lines 200-201)
IsRateLimitMessage(msg) ==
    \/ Includes(msg, <<"429">>)
    \/ Includes(msg, <<"Too Many Requests">>)
    \/ Includes(msg, <<"quota">>)

\* variant: the trimmed response is returned whatever its length and lines
PostProcessUnchecked(raw) ==
    Some([suggestion |-> Trim(raw), confidence |-> "0.8"])

\* post-processing of the raw response (lines 332-355): None is null
PostProcess(raw) ==
    LET trimmed == Trim(raw)
        afterToken == SliceFrom(trimmed, Len(SpaceToken))
        suggestion ==
            IF StartsWith(trimmed, SpaceToken)
            THEN IF StartsWith(afterToken, <<" ">>)
                 THEN afterToken ELSE <<" ">> \o afterToken
            ELSE trimmed
    IN  IF Len(suggestion) > MaxSuggestionLength
           \/ Includes(suggestion, <<"\n", "\n">>)
        THEN None
        ELSE Some([suggestion |-> suggestion, confidence |-> "0.8"])

\* a settled promise: resolved with `value`, or rejected with `error`
Resolved(v, called) == [value |-> v, error |-> None, called |-> called]
Rejected(msg, called) == [value |-> None, error |-> Some(msg), called |-> called]

\* variant: the provider is called whatever precedes the cursor
getCompletionAnyLength(isInitialized, request, outcome) ==
    IF ~isInitialized THEN Resolved(None, FALSE)
    ELSE IF outcome.kind = "throw"
         THEN Resolved(None, TRUE)
         ELSE Resolved(PostProcess(outcome.text), TRUE)

\* GeminiService.getCompletion: `called` tells whether the provider was called
getCompletion(isInitialized, request, outcome) ==
    IF ~isInitialized THEN Resolved(None, FALSE)
    ELSE LET beforeCursor == Slice(request.text, 0, request.cursorPosition)
         IN  IF Len(beforeCursor) < MinContextLength
             THEN Resolved(None, FALSE)
             ELSE IF outcome.kind = "throw"
                  THEN Resolved(None, TRUE)      \* catch (error) { ... return null }
                  ELSE Resolved(PostProcess(outcome.text), TRUE)

\* GeminiService.getSuggestion: completion?.suggestion || null
getSuggestionOfService(isInitialized, text, cursorPosition, outcome) ==
    LET completion ==
            getCompletion(isInitialized,
                          [text |-> text, cursorPosition |-> cursorPosition],
                          outcome)
    IN  IF completion.error # None THEN completion
        ELSE IF completion.value = None
                \/ The(completion.value).suggestion = <<>>
             THEN Resolved(None, completion.called)
             ELSE Resolved(Some(The(completion.value).suggestion),
                           completion.called)

RateLimitError == "Rate limit reached - suggestions paused for 1 minute"
UnavailableError == "Suggestion service temporarily unavailable"

(* ------------------------------------------------------------------ *)
(* useGeminiCopilot, the editor's instance                            *)
(* ------------------------------------------------------------------ *)
\* observation: a completion request handed to the service (line 182)
Dispatched(w, text, cursorPosition) ==
    [w.hist EXCEPT
        !.count = @ + 1,
        !.gap = IF w.hist.dispatchedAt = None THEN @
                ELSE IF @ = None THEN Some(w.now - The(w.hist.dispatchedAt))
                ELSE Some(Min(The(@), w.now - The(w.hist.dispatchedAt))),
        !.dispatchedAt = Some(w.now),
        !.request = Some([text |-> text, cursor |-> cursorPosition]),
        !.afterThrottle = IF w.hist.throttledAt # None /\ @ = None
                          THEN Some(w.now) ELSE @]

\* variant: the request is sent without isLoading being set
getSuggestionInternalNotLoading(w, text, cursorPosition, st) ==
    IF ~st.isEnabled \/ st.isLoading THEN w
    ELSE [w EXCEPT
            !.state = [@ EXCEPT !.error = None],
            !.inflight = Append(@, [text |-> text,
                                    cursorPosition |-> cursorPosition]),
            !.hist = Dispatched(w, text, cursorPosition)]

\* getSuggestionInternal up to its await (lines 176-182); st is the
\* CopilotState of the render that created the callback
getSuggestionInternal(w, text, cursorPosition, st) ==
    IF ~st.isEnabled \/ st.isLoading THEN w
    ELSE [w EXCEPT
            !.state = [@ EXCEPT !.isLoading = TRUE, !.error = None],
            !.inflight = Append(@, [text |-> text,
                                    cursorPosition |-> cursorPosition]),
            !.hist = Dispatched(w, text, cursorPosition)]

\* variant: a call that resolves leaves isLoading as it is
AfterAwaitStillLoading(w, settled) ==
    IF settled.error = None
    THEN [w EXCEPT !.state = [@ EXCEPT !.suggestion = settled.value,
                                       !.error = None]]
    ELSE IF IsRateLimitMessage(The(settled.error))
         THEN [w EXCEPT
                 !.rateLimitCooldownUntil = w.now + cooldownDuration,
                 !.state = [@ EXCEPT !.suggestion = None,
                                     !.isLoading = FALSE,
                                     !.error = Some(RateLimitError)]]
         ELSE [w EXCEPT
                 !.state = [@ EXCEPT !.suggestion = None,
                                     !.isLoading = FALSE,
                                     !.error = Some(UnavailableError)]]

\* getSuggestionInternal after its await (lines 184-220): `settled` is the
\* settled promise of geminiService.getSuggestion
AfterAwait(w, settled) ==
    IF settled.error = None
    THEN [w EXCEPT !.state = [@ EXCEPT !.suggestion = settled.value,
                                       !.isLoading = FALSE,
                                       !.error = None]]
    ELSE IF IsRateLimitMessage(The(settled.error))
         THEN [w EXCEPT
                 !.rateLimitCooldownUntil = w.now + cooldownDuration,
                 !.state = [@ EXCEPT !.suggestion = None,
                                     !.isLoading = FALSE,
                                     !.error = Some(RateLimitError)]]
         ELSE [w EXCEPT
                 !.state = [@ EXCEPT !.suggestion = None,
                                     !.isLoading = FALSE,
                                     !.error = Some(UnavailableError)]]

\* what the retry callback reads as pendingRetryData: the value of the
\* render whose effect armed the timer (line 93), not the value that
\* effect stores at line 87 (`stored`)
CapturedRetryData(w, stored) == w.pendingRetryData

\* the timer armed at lines 89-113
RetryTimer(w, remainingTime) ==
    [firesAt |-> w.now + remainingTime,
     pendingRetryData |->
        CapturedRetryData(w, [text |-> w.debouncedRequestText,
                              cursor |-> w.debouncedRequestCursor]),
     debouncedRequestText |-> w.debouncedRequestText,
     debouncedRequestCursor |-> w.debouncedRequestCursor,
     state |-> w.state]

\* observation: clearTimeout(timer) takes the timer, if any, out of the
\* retry timers that are armed in the browser
clearTimeout(w, timer) ==
    [w EXCEPT !.hist.timers = SelectSeq(@, LAMBDA t : t \notin timer)]

\* variant: the timer is armed whether or not one is pending
ArmRetryUnguarded(w, remainingTime) ==
    [w EXCEPT
        !.pendingRetryData =
            Some([text |-> w.debouncedRequestText,
                  cursor |-> w.debouncedRequestCursor]),
        !.pendingRetryTimeout = Some(RetryTimer(w, remainingTime)),
        !.hist.timers = Append(@, RetryTimer(w, remainingTime))]

\* scheduling of the automatic retry (lines 82-114)
ArmRetry(w, remainingTime) ==
    IF w.pendingRetryTimeout = None
    THEN [w EXCEPT
            !.pendingRetryData =
                Some([text |-> w.debouncedRequestText,
                      cursor |-> w.debouncedRequestCursor]),
            !.pendingRetryTimeout = Some(RetryTimer(w, remainingTime)),
            !.hist.timers = Append(@, RetryTimer(w, remainingTime))]
    ELSE w

\* the scheduler effect (lines 64-141)
SchedulerEffect(w) ==
    IF w.debouncedRequestText # <<>> /\ w.state.isEnabled /\ ~w.state.isLoading
    THEN LET timeSinceLastRequest == w.now - w.lastRequestTime
         IN  IF w.now < w.rateLimitCooldownUntil THEN w
             ELSE IF timeSinceLastRequest < MIN_REQUEST_INTERVAL
             THEN ArmRetry(w, MIN_REQUEST_INTERVAL - timeSinceLastRequest)
             ELSE getSuggestionInternal(
                      [w EXCEPT !.lastRequestText = w.debouncedRequestText,
                                !.lastRequestTime = w.now],
                      w.debouncedRequestText, w.debouncedRequestCursor,
                      w.state)
    ELSE w

\* the dependencies of the scheduler effect (line 142)
Deps(w) ==
    <<w.debouncedRequestText, w.debouncedRequestCursor, w.state.isEnabled,
      w.state.isLoading, w.lastRequestText, w.lastRequestTime>>

\* the callback of the retry timer (lines 89-111), reading its closure; the
\* timer that fired is armed no more
RetryCallback(w) ==
    LET c == The(w.pendingRetryTimeout)
        honoured ==
            /\ c.pendingRetryData # None
            /\ The(c.pendingRetryData).text = c.debouncedRequestText
            /\ The(c.pendingRetryData).cursor = c.debouncedRequestCursor
            /\ c.state.suggestion = None
            /\ c.state.isEnabled
            /\ ~c.state.isLoading
        w1 == IF honoured
              THEN getSuggestionInternal(
                       [w EXCEPT !.lastRequestText = c.debouncedRequestText,
                                 !.lastRequestTime = w.now],
                       c.debouncedRequestText, c.debouncedRequestCursor,
                       c.state)
              ELSE w
    IN  [clearTimeout(w1, w.pendingRetryTimeout) EXCEPT
            !.pendingRetryTimeout = None, !.pendingRetryData = None]

\* getSuggestion (lines 223-235), with the two useDebounce timers that the
\* next render restarts for a changed value (lines 36-37)
getSuggestion(w, text, cursorPosition) ==
    [clearTimeout(w, w.pendingRetryTimeout) EXCEPT
        !.pendingRetryTimeout = None,
        !.pendingRetryData = IF w.pendingRetryTimeout # None THEN None ELSE @,
        !.debouncedText = text,
        !.debouncedCursor = cursorPosition,
        !.textTimer = IF text # w.debouncedText
                      THEN Some(w.now + DebounceDelay) ELSE @,
        !.cursorTimer = IF cursorPosition # w.debouncedCursor
                        THEN Some(w.now + DebounceDelay) ELSE @]

\* dismissSuggestion (lines 243-245)
dismissSuggestion(w) == [w EXCEPT !.state = [@ EXCEPT !.suggestion = None]]

\* acceptSuggestion (lines 237-241)
acceptSuggestion(w) == [w EXCEPT !.state = [@ EXCEPT !.suggestion = None]]

\* error messages of initializeWithApiKey
KeyRequiredError == "API key is required"
InitFailedError == "Failed to initialize Gemini API - check your API key"
InvalidKeyError == "Invalid API key or connection error"

\* what can happen inside the try block of initializeWithApiKey:
\* geminiService.initialize returns true, or returns false (lines 281-290),
\* or storage.setGeminiApiKey throws
InitOutcomes == {"initialized", "notInitialized", "storageThrows"}

\* the boolean that initializeWithApiKey returns
initializeWithApiKeyResult(apiKey, outcome) ==
    Len(Trim(apiKey)) # 0 /\ outcome = "initialized"

\* variant: the key is not tested before the client is initialized
initializeWithApiKeyUntested(w, apiKey, outcome) ==
    LET success == outcome # "notInitialized"
        w1 == [w EXCEPT !.initialized = @ \/ success]
    IN  IF outcome = "storageThrows"
        THEN [w1 EXCEPT !.page = [@ EXCEPT !.isEnabled = FALSE,
                                           !.error = Some(InvalidKeyError)]]
        ELSE [w1 EXCEPT
                !.geminiApiKey = TRUE,
                !.page = [@ EXCEPT
                            !.isEnabled = success,
                            !.error = IF success THEN None
                                      ELSE Some(InitFailedError)]]

\* initializeWithApiKey of the header's instance (lines 144-174; page.tsx
\* lines 20-23)
initializeWithApiKey(w, apiKey, outcome) ==
    IF Len(Trim(apiKey)) = 0
    THEN [w EXCEPT !.page = [@ EXCEPT !.isEnabled = FALSE,
                                      !.error = Some(KeyRequiredError)]]
    ELSE LET success == outcome # "notInitialized"
             w1 == [w EXCEPT !.initialized = @ \/ success]
         IN  IF outcome = "storageThrows"
             THEN [w1 EXCEPT !.page = [@ EXCEPT !.isEnabled = FALSE,
                                                !.error = Some(InvalidKeyError)]]
             ELSE [w1 EXCEPT
                     !.geminiApiKey = TRUE,
                     !.page = [@ EXCEPT
                                 !.isEnabled = success,
                                 !.error = IF success THEN None
                                           ELSE Some(InitFailedError)]]

\* variant: the preference is not written
toggleCopilotNotStored(w) ==
    [w EXCEPT !.page = [@ EXCEPT !.isEnabled = ~w.page.isEnabled,
                                 !.suggestion = None]]

\* toggleCopilot of the header's instance (lines 247-253; page.tsx line 80)
toggleCopilot(w) ==
    LET newEnabled == ~w.page.isEnabled
    IN  [w EXCEPT !.page = [@ EXCEPT !.isEnabled = newEnabled,
                                     !.suggestion = None],
                  !.copilotEnabledPref = newEnabled]

(* ------------------------------------------------------------------ *)
(* NoteEditor                                                         *)
(* ------------------------------------------------------------------ *)
\* copilot.dismissSuggestion(); setSuggestionContext(null);
\* setDisplaySuggestion(null)  (lines 115-117, 126-128, 140-142, ...)
Dismiss(w) ==
    [dismissSuggestion(w) EXCEPT !.suggestionContext = None,
                                 !.displaySuggestion = None]

\* line 113: the cursor moved backward or the content length decreased
MovedBackOrShrunk(ctx, newContent, newCursorPosition) ==
    \/ Len(newContent) < Len(ctx.originalContent)
    \/ newCursorPosition < ctx.cursorPosition

\* line 124: the content before the original cursor changed
BeforeCursorChanged(ctx, newContent) ==
    Slice(newContent, 0, ctx.cursorPosition)
        # Slice(ctx.originalContent, 0, ctx.cursorPosition)

\* variant: the typed part is kept instead of the rest
RemainingPrefix(ctx, typedSinceOriginal) ==
    Slice(ctx.suggestion, 0, Len(typedSinceOriginal))

\* variant: one character is dropped whatever was typed
RemainingAfterOneChar(ctx, typedSinceOriginal) == SliceFrom(ctx.suggestion, 1)

\* line 133: what is left of the suggestion after the typed text
RemainingSuggestion(ctx, typedSinceOriginal) ==
    SliceFrom(ctx.suggestion, Len(typedSinceOriginal))

\* handleContentChange (lines 100-163); the textarea already holds the new
\* value and cursor when the change event is delivered
handleContentChange(w, newContent, newCursorPosition) ==
    LET w0 == [w EXCEPT !.content = newContent,
                        !.selectionStart = newCursorPosition]
    IN  IF w.state.isEnabled /\ Len(newContent) > 0
        THEN IF w.state.suggestion # None /\ w.suggestionContext # None
             THEN LET ctx == The(w.suggestionContext)
                      typedSinceOriginal ==
                          Slice(newContent, ctx.cursorPosition,
                                newCursorPosition)
                  IN  IF MovedBackOrShrunk(ctx, newContent, newCursorPosition)
                      THEN Dismiss(w0)
                      ELSE IF BeforeCursorChanged(ctx, newContent)
                      THEN Dismiss(w0)
                      ELSE IF Len(typedSinceOriginal) > 0
                      THEN IF StartsWith(ctx.suggestion, typedSinceOriginal)
                           THEN IF Len(RemainingSuggestion(ctx, typedSinceOriginal)) > 0
                                THEN [w0 EXCEPT !.displaySuggestion =
                                        Some(RemainingSuggestion(ctx, typedSinceOriginal))]
                                ELSE Dismiss(w0)
                           ELSE Dismiss(w0)
                      ELSE w0
             ELSE getSuggestion(w0, newContent, newCursorPosition)
        ELSE IF w.state.suggestion # None
             THEN Dismiss(w0)
             ELSE w0

\* variant: a suggestion that differs from the context's replaces the context
SuggestionEffectFollows(w) ==
    IF w.state.suggestion # None
       /\ \/ w.suggestionContext = None
          \/ The(w.suggestionContext).suggestion # The(w.state.suggestion)
    THEN [w EXCEPT
            !.suggestionContext =
                Some([originalContent |-> w.content,
                      cursorPosition |-> w.selectionStart,
                      suggestion |-> The(w.state.suggestion)]),
            !.displaySuggestion = w.state.suggestion]
    ELSE IF w.state.suggestion = None /\ w.suggestionContext # None
    THEN [w EXCEPT !.suggestionContext = None, !.displaySuggestion = None]
    ELSE w

\* the effect that tracks new suggestions (lines 68-83)
SuggestionEffect(w) ==
    IF w.state.suggestion # None /\ w.suggestionContext = None
    THEN [w EXCEPT
            !.suggestionContext =
                Some([originalContent |-> w.content,
                      cursorPosition |-> w.selectionStart,
                      suggestion |-> The(w.state.suggestion)]),
            !.displaySuggestion = w.state.suggestion]
    ELSE IF w.state.suggestion = None /\ w.suggestionContext # None
    THEN [w EXCEPT !.suggestionContext = None, !.displaySuggestion = None]
    ELSE w

\* variant: the ghost text is appended to the buffer
AcceptShownAtEnd(w) ==
    LET shown == The(w.displaySuggestion)
    IN  [acceptSuggestion(w) EXCEPT
            !.content = w.content \o shown,
            !.suggestionContext = None,
            !.displaySuggestion = None,
            !.selectionStart = Len(w.content) + Len(shown)]

\* the body of the Tab branch (lines 199-216); the timeout of lines 212-215
\* that moves the cursor runs before any other task
AcceptShown(w) ==
    LET cursorPos == w.selectionStart
        shown == The(w.displaySuggestion)
        newContent == Slice(w.content, 0, cursorPos) \o shown
                          \o SliceFrom(w.content, cursorPos)
    IN  [acceptSuggestion(w) EXCEPT
            !.content = newContent,
            !.suggestionContext = None,
            !.displaySuggestion = None,
            !.selectionStart = cursorPos + Len(shown)]

\* variant: without ghost text, Tab indents
handleTabIndents(w) ==
    IF w.displaySuggestion # None THEN AcceptShown(w)
    ELSE [w EXCEPT !.content = Slice(w.content, 0, w.selectionStart)
                                   \o <<" ">>
                                   \o SliceFrom(w.content, w.selectionStart),
                   !.selectionStart = @ + 1]

\* handleKeyDown, key Tab (lines 198-218)
handleTab(w) ==
    IF w.displaySuggestion # None THEN AcceptShown(w) ELSE w

\* variant: only the editor's copy of the suggestion is cleared
handleEscapeEditorOnly(w) ==
    IF w.displaySuggestion # None
    THEN [w EXCEPT !.suggestionContext = None, !.displaySuggestion = None]
    ELSE w

\* handleKeyDown, key Escape (lines 221-227)
handleEscape(w) ==
    IF w.displaySuggestion # None THEN Dismiss(w) ELSE w

\* the overlay's geometry (lines 189-191): padding and font size in pixels,
\* line-height in tenths of the font size; positions are in tenths of a pixel
OverlayPadding == 24
OverlayFontSize == 16
OverlayLineHeight == 17

\* the advance of a character in the font of line 179, in tenths of a pixel;
\* the values stand for the font's metrics
CharWidth(c) ==
    IF c = "\n" THEN 0
    ELSE IF c = " " THEN 41
    ELSE IF c = "b" THEN 97
    ELSE 89

\* ctx.measureText(text).width (line 187)
RECURSIVE measureText(_)
measureText(text) ==
    IF text = <<>> THEN 0
    ELSE CharWidth(Head(text)) + measureText(Tail(text))

\* String.prototype.split(sep) for a separator of one character
RECURSIVE Split(_, _)
Split(s, sep) ==
    IF \A i \in 1..Len(s) : s[i] # sep THEN <<s>>
    ELSE LET first == CHOOSE i \in 1..Len(s) :
                          s[i] = sep /\ \A k \in 1..(i - 1) : s[k] # sep
         IN  <<SubSeq(s, 1, first - 1)>>
                 \o Split(SubSeq(s, first + 1, Len(s)), sep)

\* variant: the lines of the whole buffer are counted
getCursorPositionWholeBuffer(w, hasContext) ==
    IF w.displaySuggestion = None THEN None
    ELSE IF ~hasContext THEN None
    ELSE LET cursorPos == w.selectionStart
             textBeforeCursor == Slice(w.content, 0, cursorPos)
             lines == Split(textBeforeCursor, "\n")
             currentLineIndex == Len(Split(w.content, "\n")) - 1
             currentLineText == lines[Len(lines)]
             textWidth == measureText(currentLineText)
         IN  Some([left |-> OverlayPadding * 10 + textWidth,
                   top |-> OverlayPadding * 10
                             + currentLineIndex * OverlayFontSize
                                   * OverlayLineHeight])

\* getCursorPosition (lines 166-194), called by the render of a mounted
\* editor; hasContext tells whether canvas.getContext('2d') gave a context
getCursorPosition(w, hasContext) ==
    IF w.displaySuggestion = None THEN None
    ELSE IF ~hasContext THEN None
    ELSE LET cursorPos == w.selectionStart
             textBeforeCursor == Slice(w.content, 0, cursorPos)
             lines == Split(textBeforeCursor, "\n")
             currentLineIndex == Len(lines) - 1
             currentLineText == lines[currentLineIndex + 1]
             textWidth == measureText(currentLineText)
         IN  Some([left |-> OverlayPadding * 10 + textWidth,
                   top |-> OverlayPadding * 10
                             + currentLineIndex * OverlayFontSize
                                   * OverlayLineHeight])

\* handleManualSave (lines 86-93)
handleManualSave(w) ==
    IF w.content # w.savedContent
    THEN [w EXCEPT !.noteContent = w.content, !.savedContent = w.content]
    ELSE w

(* ------------------------------------------------------------------ *)
(* One render: the effects that follow a task                         *)
(* ------------------------------------------------------------------ *)
\* the scheduler effect runs after every render in which one of its
\* dependencies changed, until none does
RECURSIVE Render(_, _)
Render(prev, cur) ==
    IF Deps(prev) = Deps(cur) THEN cur
    ELSE Render(cur, SchedulerEffect(cur))

\* variant: the editor's copy is updated, storage is not written
AutoSaveEffectNotStored(w) ==
    IF w.debouncedContent # w.savedContent
    THEN [w EXCEPT !.savedContent = w.debouncedContent]
    ELSE w

\* the auto-save effect (note-editor.tsx lines 47-54)
AutoSaveEffect(w) ==
    IF w.debouncedContent # w.savedContent
    THEN [w EXCEPT !.noteContent = w.debouncedContent,
                   !.savedContent = w.debouncedContent]
    ELSE w

\* useDebounce(content, 3000) (note-editor.tsx line 21): a render with a
\* changed content restarts the timer
ContentDebounce(prev, cur) ==
    IF cur.content # prev.content
    THEN [cur EXCEPT !.saveTimer = Some(cur.now + AutoSaveDelay),
                     !.hist.changedAt = Some(cur.now)]
    ELSE cur

\* the cleanup of the effect on pendingRetryTimeout (hook lines 54-61): a
\* render with a changed pendingRetryTimeout clears the previous timer
CleanupEffect(prev, cur) ==
    IF cur.pendingRetryTimeout # prev.pendingRetryTimeout
    THEN clearTimeout(cur, prev.pendingRetryTimeout)
    ELSE cur

Committed(prev, cur) ==
    CleanupEffect(prev,
        AutoSaveEffect(SuggestionEffect(
            Render(prev, ContentDebounce(prev, cur)))))

\* a task took the state from World to w
Task(w) ==
    Becomes(Committed(World, [w EXCEPT !.hist.prior = None,
                                       !.hist.event = None]))

\* observation: the buffer, cursor, ghost text and header switch that a key
\* press, a click or a response found; `request` is the request a response
\* answers, `did` what the provider did and `after` the CopilotState that
\* the handler of a response set
Found(kind, request, did) ==
    [kind |-> kind, content |-> content, selectionStart |-> selectionStart,
     display |-> displaySuggestion, isEnabled |-> page.isEnabled,
     request |-> request, did |-> did, after |-> None]

\* a key press, a click or a response took the state from World to w
EventTask(e, w) ==
    Becomes(Committed(World, [w EXCEPT !.hist.prior = None,
                                       !.hist.event = Some(e)]))

\* observation: the SuggestionContext, buffer and cursor that a change event
\* found, when it found a SuggestionContext
Prior ==
    IF suggestionContext = None THEN None
    ELSE Some([context |-> The(suggestionContext), content |-> content,
               selectionStart |-> selectionStart])

\* a change event took the state from World to w
ChangeTask(w) ==
    Becomes(Committed(World, [w EXCEPT !.hist.prior = Prior,
                                       !.hist.event = None,
                                       !.hist.inputs = @ + 1]))

(* ------------------------------------------------------------------ *)
(* Initial states                                                     *)
(* ------------------------------------------------------------------ *)
NoHistory ==
    [inputs |-> 0, count |-> 0, dispatchedAt |-> None,
     gap |-> None, request |-> None, throttledAt |-> None,
     afterThrottle |-> None, prior |-> None, event |-> None,
     changedAt |-> None, timers |-> <<>>]

\* the first render of a page load at time t (hook lines 22-37, editor
\* lines 18-33), with the service initialized by the hook's mount effect
\* (hook lines 39-52): both instances are enabled iff a key is stored and
\* the preference is on
FirstRender(t, hasKey, pref, note, h) ==
    [now |-> t,
     state |-> [suggestion |-> None, isLoading |-> FALSE,
                isEnabled |-> (hasKey /\ pref), error |-> None],
     page |-> [suggestion |-> None, isLoading |-> FALSE,
               isEnabled |-> (hasKey /\ pref), error |-> None],
     copilotEnabledPref |-> pref,
     initialized |-> (hasKey /\ pref),
     geminiApiKey |-> hasKey,
     debouncedText |-> <<>>, debouncedCursor |-> 0,
     debouncedRequestText |-> <<>>, debouncedRequestCursor |-> 0,
     textTimer |-> None, cursorTimer |-> None,
     lastRequestText |-> <<>>, lastRequestTime |-> 0,
     rateLimitCooldownUntil |-> 0,
     pendingRetryTimeout |-> None, pendingRetryData |-> None,
     inflight |-> <<>>,
     content |-> <<>>, selectionStart |-> 0,
     suggestionContext |-> None, displaySuggestion |-> None,
     noteContent |-> note, savedContent |-> <<>>,
     debouncedContent |-> <<>>, saveTimer |-> None,
     hist |-> h]

\* the load effect (editor lines 36-44)
LoadEffect(w) ==
    [w EXCEPT !.content = w.noteContent,
              !.selectionStart = Len(w.noteContent),
              !.savedContent = w.noteContent]

\* the page at time t once its mount effects and the renders they cause
\* have run
MountedAt(t, hasKey, pref, note, h) ==
    LET first == FirstRender(t, hasKey, pref, note, h)
    IN  Committed(first, LoadEffect(first))

Mounted(hasKey, pref, note) ==
    Is(MountedAt(PageLoadTime, hasKey, pref, note, NoHistory))

Init ==
    \E hasKey \in BOOLEAN, pref \in BOOLEAN :
        Mounted(hasKey, pref, Rep("a", NoteLen))

(* ------------------------------------------------------------------ *)
(* Actions                                                            *)
(* ------------------------------------------------------------------ *)
Due(timer) == timer # None /\ The(timer) <= now
RetryDue == pendingRetryTimeout # None /\ The(pendingRetryTimeout).firesAt <= now

Input(w) == [w EXCEPT !.hist.inputs = @ + 1]

\* the user types c at the cursor: a change event
TypeChar(c) ==
    /\ hist.inputs < MaxInputs
    /\ ChangeTask(handleContentChange(
                World,
                Slice(content, 0, selectionStart) \o <<c>>
                    \o SliceFrom(content, selectionStart),
                selectionStart + 1))

\* the user deletes the character before the cursor: a change event
Backspace ==
    /\ hist.inputs < MaxInputs
    /\ selectionStart > 0
    /\ ChangeTask(handleContentChange(
                World,
                Slice(content, 0, selectionStart - 1)
                    \o SliceFrom(content, selectionStart),
                selectionStart - 1))

\* the user moves the cursor (arrow keys, mouse): no change event
MoveCursor(p) ==
    /\ hist.inputs < MaxInputs
    /\ p \in 0..Len(content)
    /\ p # selectionStart
    /\ Task(Input([World EXCEPT !.selectionStart = p]))

\* a key press that finds no ghost text counts as an input of the run
KeyPress(w) == IF displaySuggestion = None THEN Input(w) ELSE w

PressTab ==
    /\ displaySuggestion # None \/ hist.inputs < MaxInputs
    /\ EventTask(Found("Tab", None, ""), KeyPress(handleTab(World)))

PressEscape ==
    /\ displaySuggestion # None \/ hist.inputs < MaxInputs
    /\ EventTask(Found("Escape", None, ""), KeyPress(handleEscape(World)))

\* the header's toggle button
ClickToggle ==
    /\ hist.inputs < MaxInputs
    /\ EventTask(Found("Toggle", None, ""), Input(toggleCopilot(World)))

\* the debounce timers that are due fire; their updates make one render
DebounceFires ==
    /\ Due(textTimer) \/ Due(cursorTimer)
    /\ Task([World EXCEPT
                !.debouncedRequestText =
                    IF Due(textTimer) THEN debouncedText ELSE @,
                !.textTimer = IF Due(textTimer) THEN None ELSE @,
                !.debouncedRequestCursor =
                    IF Due(cursorTimer) THEN debouncedCursor ELSE @,
                !.cursorTimer = IF Due(cursorTimer) THEN None ELSE @])

\* the auto-save debounce fires
SaveFires ==
    /\ Due(saveTimer)
    /\ Task([World EXCEPT !.debouncedContent = content, !.saveTimer = None])

\* Ctrl+S, or a click on the header's save button (page.tsx lines 30-46,
\* 58); `did` tells whether the press found unsaved changes
PressSave ==
    /\ hist.inputs < MaxInputs
    /\ EventTask(Found("Save", None,
                       IF content # savedContent THEN "unsaved" ELSE ""),
                 Input(handleManualSave(World)))

\* the user enters a key in the header
ApiKeys == {<<>>, <<" ">>, <<"k">>}

EnterApiKey(apiKey, outcome) ==
    /\ hist.inputs < MaxInputs
    /\ EventTask(Found("ApiKey", None,
                       IF Len(Trim(apiKey)) = 0 THEN "" ELSE outcome),
                 Input(initializeWithApiKey(World, apiKey, outcome)))

\* the user reloads the page: a new session starts from storage; what the
\* previous session observed is dropped, its inputs still count
Reload ==
    /\ hist.inputs < MaxInputs
    /\ Becomes(MountedAt(now, geminiApiKey, copilotEnabledPref, noteContent,
                         [NoHistory EXCEPT
                            !.inputs = hist.inputs + 1,
                            !.event = Some(Found("Reload", None,
                                IF hist.event # None
                                   /\ The(hist.event).kind = "Toggle"
                                THEN "toggled" ELSE ""))]))

\* the retry timer fires
RetryFires ==
    /\ RetryDue
    /\ Task(RetryCallback(World))

\* what the provider did, as far as the observer is concerned
ProviderDid(settled, outcome) ==
    IF ~settled.called THEN "notcalled"
    ELSE IF outcome.kind = "text"
         THEN IF \/ Len(Trim(outcome.text)) > MaxSuggestionLength
                 \/ Includes(outcome.text, <<"\n", "\n">>)
              THEN "malformed" ELSE "text"
    ELSE IF IsRateLimitMessage(outcome.message) THEN "throttled"
    ELSE "failed"

\* the i-th completion call in flight settles
Settle(i, outcome) ==
    LET req == inflight[i]
        settled == getSuggestionOfService(initialized, req.text,
                                          req.cursorPosition, outcome)
        did == ProviderDid(settled, outcome)
        w == [World EXCEPT
                !.inflight = SubSeq(inflight, 1, i - 1)
                                 \o SubSeq(inflight, i + 1, Len(inflight)),
                !.hist.throttledAt =
                    IF did = "throttled" THEN Some(now) ELSE @,
                !.hist.afterThrottle =
                    IF did = "throttled" THEN None ELSE @]
    IN  EventTask([Found("Response", Some(req), did) EXCEPT
                      !.after = Some(AfterAwait(w, settled).state)],
                  AfterAwait(w, settled))

\* time passes; a timer that is due fires before it does
Advance ==
    /\ now + Tick <= EndOfTime
    /\ ~Due(textTimer) /\ ~Due(cursorTimer) /\ ~RetryDue /\ ~Due(saveTimer)
    /\ Task([World EXCEPT !.now = now + Tick])

Next ==
    \/ \E c \in Chars : TypeChar(c)
    \/ Backspace
    \/ \E p \in {selectionStart - 1, selectionStart + 1} : MoveCursor(p)
    \/ PressTab
    \/ PressEscape
    \/ ClickToggle
    \/ PressSave
    \/ \E k \in ApiKeys, o \in InitOutcomes : EnterApiKey(k, o)
    \/ Reload
    \/ DebounceFires
    \/ RetryFires
    \/ SaveFires
    \/ \E i \in 1..Len(inflight), o \in ProviderOutcomes : Settle(i, o)
    \/ Advance

Spec == Init /\ [][Next]_vars

(* ------------------------------------------------------------------ *)
(* The burst scenario: an empty buffer, the feature enabled, and        *)
(* MinContextLength characters typed before the clock advances          *)
(* ------------------------------------------------------------------ *)
BurstText == Rep(BurstChar, MinContextLength)

InitBurst == Mounted(TRUE, TRUE, <<>>)

BurstType ==
    /\ now = PageLoadTime
    /\ Len(content) < MinContextLength
    /\ Task(handleContentChange(World, content \o <<BurstChar>>,
                                selectionStart + 1))

BurstAdvance ==
    /\ Len(content) = MinContextLength
    /\ Advance

\* Tab and Escape stay available: they deliver no change event
NextBurst ==
    \/ BurstType
    \/ PressTab
    \/ PressEscape
    \/ DebounceFires
    \/ RetryFires
    \/ \E i \in 1..Len(inflight), o \in ProviderOutcomes : Settle(i, o)
    \/ BurstAdvance

SpecBurst == InitBurst /\ [][NextBurst]_vars

(* ------------------------------------------------------------------ *)
(* The typing scenario: the feature enabled, the user only types and    *)
(* deletes at the cursor, and the provider answers every request with   *)
(* a completion of three characters                                     *)
(* ------------------------------------------------------------------ *)
LongCompletion == <<"a", "a", "b">>

InitTyping == Mounted(TRUE, TRUE, Rep("a", NoteLen))

TypingType(c) ==
    /\ hist.inputs < MaxEdits
    /\ ChangeTask(handleContentChange(
                World,
                Slice(content, 0, selectionStart) \o <<c>>
                    \o SliceFrom(content, selectionStart),
                selectionStart + 1))

TypingBackspace ==
    /\ hist.inputs < MaxEdits
    /\ selectionStart > 0
    /\ ChangeTask(handleContentChange(
                World,
                Slice(content, 0, selectionStart - 1)
                    \o SliceFrom(content, selectionStart),
                selectionStart - 1))

NextTyping ==
    \/ \E c \in Chars : TypingType(c)
    \/ TypingBackspace
    \/ DebounceFires
    \/ RetryFires
    \/ \E i \in 1..Len(inflight) : Settle(i, TextOutcome(LongCompletion))
    \/ Advance

SpecTyping == InitTyping /\ [][NextTyping]_vars

(* ------------------------------------------------------------------ *)
(* The scenario of the user who types and stops: the typing scenario    *)
(* with a provider that answers in any way, under the browser's         *)
(* scheduling: a timer that is due fires, a completion call in flight   *)
(* settles, and time passes                                             *)
(* ------------------------------------------------------------------ *)
NextStops ==
    \/ \E c \in Chars : TypingType(c)
    \/ TypingBackspace
    \/ DebounceFires
    \/ RetryFires
    \/ \E i \in 1..Len(inflight), o \in ProviderOutcomes : Settle(i, o)
    \/ Advance

\* what the steps of DebounceFires, RetryFires, Settle and Advance do to
\* the timers, the calls in flight and the clock; each has the guard of its
\* action, and a step that satisfies one of them ends its guard
DebounceStep ==
    /\ Due(textTimer) \/ Due(cursorTimer)
    /\ textTimer' = IF Due(textTimer) THEN None ELSE textTimer
    /\ cursorTimer' = IF Due(cursorTimer) THEN None ELSE cursorTimer

RetryStep == RetryDue /\ pendingRetryTimeout' = None

\* a call settles; the render that follows may dispatch the debounced
\* request again
SettleStep ==
    \E i \in 1..Len(inflight) :
        LET rest == SubSeq(inflight, 1, i - 1)
                        \o SubSeq(inflight, i + 1, Len(inflight))
        IN  \/ inflight' = rest /\ lastRequestTime' = lastRequestTime
            \/ /\ inflight' = Append(rest,
                                     [text |-> debouncedRequestText,
                                      cursorPosition |-> debouncedRequestCursor])
               /\ lastRequestTime' = now

ClockStep ==
    /\ now + Tick <= EndOfTime
    /\ ~Due(textTimer) /\ ~Due(cursorTimer) /\ ~RetryDue /\ ~Due(saveTimer)
    /\ now' = now + Tick

Fairness ==
    /\ WF_<<textTimer, cursorTimer>>(DebounceStep)
    /\ WF_pendingRetryTimeout(RetryStep)
    /\ WF_<<inflight, lastRequestTime>>(SettleStep)
    /\ WF_now(ClockStep)

SpecStops == InitTyping /\ [][NextStops]_vars /\ Fairness

(* ------------------------------------------------------------------ *)
(* The overlay scenario: notes of several lines, the user types          *)
(* characters and line breaks and moves the cursor, and the provider     *)
(* answers every request with a completion                               *)
(* ------------------------------------------------------------------ *)
\* a note that ends with a line of i and a line of j characters
OverlayNote(i, j) ==
    Rep("a", NoteLen - i - j - 2) \o <<"\n">> \o Rep("a", i)
        \o <<"\n">> \o Rep("a", j)

OverlayNotes ==
    {Rep("a", NoteLen)}
        \cup {OverlayNote(i, j) : i \in 0..MaxLine, j \in 0..MaxLine}

InitOverlay == \E note \in OverlayNotes : Mounted(TRUE, TRUE, note)

\* the user presses Enter: a change event
TypeBreak ==
    /\ hist.inputs < MaxInputs
    /\ ChangeTask(handleContentChange(
                World,
                Slice(content, 0, selectionStart) \o <<"\n">>
                    \o SliceFrom(content, selectionStart),
                selectionStart + 1))

NextOverlay ==
    \/ TypeChar(BurstChar)
    \/ TypeBreak
    \/ \E p \in {selectionStart - 1, selectionStart + 1} : MoveCursor(p)
    \/ DebounceFires
    \/ RetryFires
    \/ \E i \in 1..Len(inflight) : Settle(i, TextOutcome(<<"a", "b">>))
    \/ Advance

SpecOverlay == InitOverlay /\ [][NextOverlay]_vars

(* ------------------------------------------------------------------ *)
(* Properties                                                         *)
(* ------------------------------------------------------------------ *)
Cleared ==
    /\ suggestionContext = None
    /\ displaySuggestion = None
    /\ state.suggestion = None

\* C1: at most one completion request is in flight at any time: no request
\* is dispatched while an earlier one has not settled.
AtMostOneInFlight == Len(inflight) <= 1

\* a candidate fired while a request was in flight, and was not dispatched
CandidateWhileInFlight ==
    /\ Len(inflight) = 1
    /\ state.isLoading
    /\ debouncedRequestText # <<>>
    /\ debouncedRequestText # inflight[1].text

\* C2: any two consecutive dispatches of a completion request are at least
\* 2000 ms apart.
DispatchesSpaced == hist.gap # None => The(hist.gap) >= 2000

\* two dispatches exactly 2000 ms apart
DispatchedTwice == hist.count >= 2 /\ hist.gap = Some(2000)

\* C3: after a request failed at time T with a throttling error, no request
\* is dispatched before T + 60000 ms.
NoDispatchInCooldown ==
    hist.afterThrottle # None
        => The(hist.afterThrottle) >= The(hist.throttledAt) + 60000

\* C4: a failure of the remote call reaches the caller of
\* geminiService.getSuggestion as a rejected promise, and a throttling
\* failure at time T starts the cooldown that lasts until T + 60000 ms.
FailurePropagates ==
    /\ \A i \in 1..Len(inflight), o \in ProviderOutcomes :
          LET settled == getSuggestionOfService(initialized, inflight[i].text,
                                                inflight[i].cursorPosition, o)
          IN  (settled.called /\ o.kind = "throw")
                  => settled.error = Some(o.message)
    /\ hist.throttledAt # None
          => rateLimitCooldownUntil = The(hist.throttledAt) + 60000

\* the retry timer fires while its stored snapshot is the latest debounced
\* (text, cursor), no suggestion is displayed, and the controller is enabled
\* and not loading
RetryConditionsMet ==
    /\ pendingRetryData = Some([text |-> debouncedRequestText,
                                cursor |-> debouncedRequestCursor])
    /\ displaySuggestion = None
    /\ state.suggestion = None
    /\ state.isEnabled
    /\ ~state.isLoading

\* a debounced candidate fires less than 2000 ms after the last dispatch
CandidateTooEarly ==
    /\ <<debouncedRequestText', debouncedRequestCursor'>>
          # <<debouncedRequestText, debouncedRequestCursor>>
    /\ debouncedRequestText' # <<>>
    /\ state.isEnabled /\ ~state.isLoading
    /\ now >= rateLimitCooldownUntil
    /\ now - lastRequestTime < 2000

\* C5: a candidate that fires less than 2000 ms after the previous dispatch
\* is deferred: a retry timer is pending for the remaining wait; and when the
\* retry timer fires under RetryConditionsMet, a request for the stored
\* snapshot is dispatched.
DeferredThenRetried ==
    [][ /\ (DebounceFires /\ CandidateTooEarly)
            => /\ pendingRetryTimeout' # None
               /\ The(pendingRetryTimeout').firesAt = lastRequestTime + 2000
        /\ (RetryFires /\ RetryConditionsMet)
            => /\ hist'.count = hist.count + 1
               /\ hist'.request = pendingRetryData ]_vars

\* C6: in the burst scenario exactly one request is dispatched, after the
\* 500 ms quiet window, with the full text and the final cursor, and no
\* second one follows.
BurstOneRequest ==
    /\ hist.count <= 1
    /\ hist.count = 1
          => /\ hist.request = Some([text |-> BurstText,
                                     cursor |-> Len(BurstText)])
             /\ The(hist.dispatchedAt) >= PageLoadTime + 500
    /\ debouncedRequestText = BurstText => hist.count >= 1

\* C7: a qualifying keystroke that arrives while a retry timer is pending
\* cancels the timer and starts a fresh debounce cycle.
KeystrokeCancelsRetry ==
    [][ ( /\ (\E c \in Chars : TypeChar(c)) \/ Backspace
          /\ state.isEnabled
          /\ Len(content') > 0
          /\ pendingRetryTimeout # None )
            => /\ pendingRetryTimeout' = None
               /\ pendingRetryData' = None
               /\ textTimer' = Some(now + 500) ]_vars

\* the text typed since the snapshot of the context that the last change
\* event found
TypedSince(p) ==
    Slice(content, p.context.cursorPosition, selectionStart)
SnapshotBefore(p) ==
    Slice(p.context.originalContent, 0, p.context.cursorPosition)
SnapshotAfter(p) ==
    SliceFrom(p.context.originalContent, p.context.cursorPosition)

\* the last change event left a non-empty prefix of the live suggestion
\* typed at the snapshot cursor, the rest of the snapshot unchanged
TypedAPrefix(p) ==
    /\ selectionStart > p.context.cursorPosition
    /\ content = SnapshotBefore(p) \o TypedSince(p) \o SnapshotAfter(p)
    /\ StartsWith(p.context.suggestion, TypedSince(p))

\* C8: after a prefix t of the live suggestion s was typed at the snapshot
\* cursor, the displayed suggestion is s without t; once t = s the suggestion
\* is cleared and the buffer reads snapshot-before + s + snapshot-after.
TypedPrefixShrinks ==
    \A p \in hist.prior :
        TypedAPrefix(p) =>
            LET s == p.context.suggestion
                t == TypedSince(p)
            IN  IF t = s
                THEN /\ suggestionContext = None
                     /\ displaySuggestion = None
                     /\ content = SnapshotBefore(p) \o s \o SnapshotAfter(p)
                ELSE /\ displaySuggestion = Some(SubSeq(s, Len(t) + 1, Len(s)))
                     /\ suggestionContext = Some(p.context)

\* part of the suggestion was typed and the rest is displayed
PartlyTyped ==
    \E p \in hist.prior :
        /\ TypedAPrefix(p)
        /\ displaySuggestion # None
        /\ Len(The(displaySuggestion)) < Len(p.context.suggestion)

\* the last change event inserted or deleted text strictly before the
\* snapshot cursor
EditedBeforeSnapshot(p) ==
    \/ /\ Len(content) > Len(p.content)
       /\ p.selectionStart < p.context.cursorPosition
    \/ /\ Len(content) < Len(p.content)
       /\ p.selectionStart - 1 < p.context.cursorPosition

\* C9: every edit that inserts or deletes text strictly before the snapshot
\* cursor while a suggestion is live clears the live suggestion (context,
\* displayed suggestion and the controller's suggestion).
EditBeforeSnapshotClears ==
    \A p \in hist.prior : EditedBeforeSnapshot(p) => Cleared

\* C10: every edit made while a suggestion is live that shortens the buffer
\* or leaves the cursor before the snapshot cursor clears the suggestion.
ShorteningClears ==
    \A p \in hist.prior :
        ( \/ Len(content) < Len(p.content)
          \/ selectionStart < p.context.cursorPosition ) => Cleared

\* the key `kind` was pressed while ghost text was displayed
PressedWithSuggestion(e, kind) == e.kind = kind /\ e.display # None

\* C11: Tab pressed while the suggestion s is displayed and the cursor is at
\* c yields the buffer before(c) + s + after(c) with the cursor at c + len(s),
\* and clears SuggestionContext, DisplaySuggestion and the controller's
\* suggestion.
TabAccepts ==
    \A e \in hist.event :
        PressedWithSuggestion(e, "Tab") =>
            LET s == The(e.display)
                c == e.selectionStart
            IN  /\ content = Slice(e.content, 0, c) \o s
                                 \o SliceFrom(e.content, c)
                /\ selectionStart = c + Len(s)
                /\ Cleared

\* a suggestion was accepted with the cursor inside the buffer
AcceptedInsideBuffer ==
    \E e \in hist.event :
        /\ PressedWithSuggestion(e, "Tab")
        /\ e.selectionStart < Len(e.content)
        /\ Len(content) > Len(e.content)

\* C12: Escape pressed while a suggestion is displayed clears
\* SuggestionContext, DisplaySuggestion and the controller's suggestion and
\* leaves the buffer and the cursor as they were.
EscapeDismisses ==
    \A e \in hist.event :
        PressedWithSuggestion(e, "Escape") =>
            /\ Cleared
            /\ content = e.content
            /\ selectionStart = e.selectionStart

\* a displayed suggestion was dismissed with Escape
DismissedWithEscape ==
    \E e \in hist.event :
        /\ PressedWithSuggestion(e, "Escape")
        /\ displaySuggestion = None

\* the state of the editor, of its controller and of its scheduler
EditorAndController ==
    <<content, selectionStart, suggestionContext, displaySuggestion, state,
      debouncedText, debouncedCursor, debouncedRequestText,
      debouncedRequestCursor, textTimer, cursorTimer, lastRequestText,
      lastRequestTime, rateLimitCooldownUntil, pendingRetryTimeout,
      pendingRetryData, inflight>>

\* C13: Tab and Escape pressed while no suggestion is displayed change
\* neither the buffer, the cursor, the controller state nor the scheduler
\* state (pending retry, last request time, cooldown).
KeysWithoutSuggestion ==
    [][ ((PressTab \/ PressEscape) /\ displaySuggestion = None)
            => UNCHANGED EditorAndController ]_vars

\* Tab or Escape was pressed without ghost text while a retry was pending
PressedWithoutSuggestion ==
    \E e \in hist.event :
        /\ e.kind \in {"Tab", "Escape"}
        /\ e.display = None
        /\ pendingRetryTimeout # None

\* C14: right after the header's toggle disabled the feature, no ghost text
\* is displayed in the editor and no SuggestionContext is live.
ToggleOffClears ==
    \A e \in hist.event :
        (e.kind = "Toggle" /\ ~page.isEnabled) =>
            /\ displaySuggestion = None
            /\ suggestionContext = None

\* C15: the CopilotState shown and toggled by the header is the one that
\* drives the editor's suggestion controller.
OneCopilotState == page = state

\* C16: a response becomes the displayed suggestion only if the (text,
\* cursor) its request was dispatched with is the buffer and cursor at the
\* time the response arrives.
ResponseForCurrentSnapshot ==
    \A e \in hist.event :
        (e.kind = "Response" /\ e.display = None /\ displaySuggestion # None)
            => The(e.request) = [text |-> content,
                                 cursorPosition |-> selectionStart]

IsSuffix(t, s) ==
    Len(t) <= Len(s) /\ SubSeq(s, Len(s) - Len(t) + 1, Len(s)) = t

\* C17: DisplaySuggestion is absent or a non-empty suffix of the suggestion
\* stored in the live SuggestionContext.
DisplayIsSuffix ==
    displaySuggestion # None =>
        /\ suggestionContext # None
        /\ The(displaySuggestion) # <<>>
        /\ IsSuffix(The(displaySuggestion), The(suggestionContext).suggestion)

\* a proper suffix of the context's suggestion is displayed
ProperSuffixDisplayed ==
    /\ displaySuggestion # None
    /\ suggestionContext # None
    /\ Len(The(displaySuggestion)) < Len(The(suggestionContext).suggestion)

\* C18: after a request ended with a null response or a client failure the
\* controller is idle (isLoading false, suggestion null) and error holds the
\* rate-limit message for a throttling failure and the 'temporarily
\* unavailable' message otherwise.
NoSuggestionSurfacesError ==
    \A e \in hist.event :
        ( /\ e.kind = "Response"
          /\ e.did \in {"throttled", "failed"} \/ state.suggestion = None )
            => /\ ~state.isLoading
               /\ state.suggestion = None
               /\ state.error = Some(IF e.did = "throttled"
                                     THEN RateLimitError
                                     ELSE UnavailableError)

\* C19: a click on the toggle flips isEnabled of the instance it belongs to
\* and leaves the stored copilotEnabled preference equal to it; a page loaded
\* with a stored key, whose mount effect initializes the service, starts
\* both instances with isEnabled equal to the stored preference
PreferenceFollowsToggle ==
    \A e \in hist.event :
        /\ e.kind = "Toggle" =>
              /\ page.isEnabled = ~e.isEnabled
              /\ copilotEnabledPref = page.isEnabled
        /\ (e.kind = "Reload" /\ geminiApiKey) =>
              /\ state.isEnabled = copilotEnabledPref
              /\ page.isEnabled = copilotEnabledPref

\* the feature was switched on with the toggle, the page was reloaded at
\* once and came up enabled
ReloadedAfterToggle ==
    \E e \in hist.event :
        /\ e.kind = "Reload" /\ e.did = "toggled"
        /\ geminiApiKey /\ copilotEnabledPref
        /\ state.isEnabled /\ page.isEnabled

\* hasUnsavedChanges of the save status effect (note-editor.tsx line 63)
hasUnsavedChanges == content # savedContent

\* C20: once the buffer has been unchanged for the 3000 ms of the auto-save
\* debounce and the debounce has fired, the stored note equals the buffer
\* and hasUnsavedChanges is false
SavedAfterQuiet ==
    \A t \in hist.changedAt :
        (now >= t + AutoSaveDelay /\ ~Due(saveTimer)) =>
            /\ saveTimer = None
            /\ noteContent = content
            /\ ~hasUnsavedChanges

\* the user edited the loaded note, left it alone for 3000 ms, and the edited
\* buffer is in storage
EditSaved ==
    \E t \in hist.changedAt :
        /\ now >= t + AutoSaveDelay
        /\ content # Rep("a", NoteLen)
        /\ noteContent = content
        /\ ~hasUnsavedChanges

\* C21: once the task of a manual save that found unsaved changes is over,
\* the stored note is the buffer and no unsaved change is left
ManualSaveSticks ==
    \A e \in hist.event :
        (e.kind = "Save" /\ e.did = "unsaved") =>
            /\ content = e.content
            /\ noteContent = content
            /\ ~hasUnsavedChanges

\* the retry timer that the hook holds, as a list
HeldRetryTimers ==
    IF pendingRetryTimeout = None THEN <<>> ELSE <<The(pendingRetryTimeout)>>

\* C22: at most one retry timer is armed in the browser, and it is the one
\* held in pendingRetryTimeout; pendingRetryTimeout and pendingRetryData are
\* both set or both null; a timer is armed only by a task that found none
\* pending
OneRetryTimer ==
    /\ [](/\ Len(hist.timers) <= 1
          /\ hist.timers = HeldRetryTimers
          /\ (pendingRetryTimeout = None) <=> (pendingRetryData = None))
    /\ [][(pendingRetryTimeout' # None
             /\ pendingRetryTimeout' # pendingRetryTimeout)
            => pendingRetryTimeout = None]_vars

\* a retry timer is pending and the scheduler effect has run again since it
\* was armed, within MIN_REQUEST_INTERVAL of the last request: the debounced
\* text or cursor is no longer the one of the timer's closure
RetryKeptByScheduler ==
    \E t \in pendingRetryTimeout :
        /\ hist.timers = <<t>>
        /\ pendingRetryData # None
        /\ state.isEnabled /\ ~state.isLoading
        /\ now - lastRequestTime < MIN_REQUEST_INTERVAL
        /\ \/ t.debouncedRequestText # debouncedRequestText
           \/ t.debouncedRequestCursor # debouncedRequestCursor

\* C23: a task that finds a SuggestionContext and changes the
\* DisplaySuggestion clears it or replaces it with a suffix of its value
DisplayNeverGrows ==
    [][(suggestionContext # None /\ displaySuggestion # None
          /\ displaySuggestion' # displaySuggestion)
        => \/ displaySuggestion' = None
           \/ IsSuffix(The(displaySuggestion'), The(displaySuggestion))]_vars

IsPrefix(t, s) == Len(t) <= Len(s) /\ SubSeq(s, 1, Len(t)) = t

\* the last change event left the text before the snapshot cursor as it was,
\* and between the snapshot cursor and the cursor a non-empty text that is
\* not a prefix of the suggestion
DivergedFromSuggestion(p) ==
    /\ Slice(content, 0, p.context.cursorPosition) = SnapshotBefore(p)
    /\ TypedSince(p) # <<>>
    /\ ~IsPrefix(TypedSince(p), p.context.suggestion)

\* C24: a change event that finds a live suggestion and leaves a text that
\* diverges from it clears the suggestion (context, display and the
\* controller's suggestion) and leaves the controller idle: not loading
DivergingEditClears ==
    \A p \in hist.prior :
        DivergedFromSuggestion(p) => (Cleared /\ ~state.isLoading)

\* C27: a task that dispatches a completion request ends with no suggestion
\* in the controller and no SuggestionContext: the request was dispatched
\* with no suggestion live
DispatchOnlyFromIdle ==
    [][hist'.count > hist.count
        => (state'.suggestion = None /\ suggestionContext' = None)]_vars

\* C25: no task changes the snapshot or the suggestion of a live
\* SuggestionContext; a context appears only where none was, in the task of
\* a response, and holds the buffer, the cursor and the suggestion of that
\* moment
ContextImmutable ==
    [][/\ (suggestionContext # None /\ suggestionContext' # None)
            => suggestionContext' = suggestionContext
       /\ (suggestionContext' # None /\ suggestionContext' # suggestionContext)
            => /\ \E e \in hist'.event : e.kind = "Response"
               /\ suggestionContext' =
                     Some([originalContent |-> content',
                           cursorPosition |-> selectionStart',
                           suggestion |-> The(state'.suggestion)])]_vars

\* a keystroke that matches the suggestion changed the display and the
\* buffer, and the context is the one it found
ContextKeptWhileTyping ==
    \E p \in hist.prior :
        /\ suggestionContext = Some(p.context)
        /\ content # p.context.originalContent
        /\ displaySuggestion # None
        /\ displaySuggestion # Some(p.context.suggestion)

\* C26: a change event that finds a live suggestion while the feature is
\* switched off in the header, or that leaves the buffer empty, clears the
\* suggestion (context, display and the controller's suggestion)
DisabledOrEmptyDismisses ==
    \A p \in hist.prior :
        (~page.isEnabled \/ content = <<>>) => Cleared

\* C28: the handler of a response that is longer than 100 characters or
\* holds a blank line sets suggestion null, isLoading false and error null,
\* and the task ends with no suggestion and no error
MalformedIsNoSuggestion ==
    \A e \in hist.event :
        (e.kind = "Response" /\ e.did = "malformed") =>
            /\ e.after # None
            /\ \A st \in e.after : /\ st.suggestion = None
                                   /\ ~st.isLoading
                                   /\ st.error = None
            /\ state.suggestion = None
            /\ state.error = None

\* the provider answered a request of 20 characters of context with a
\* malformed completion, and no other request followed
MalformedAnswered ==
    \E e \in hist.event :
        /\ e.kind = "Response" /\ e.did = "malformed"
        /\ \E r \in e.request : r.cursorPosition >= MinContextLength
        /\ ~state.isLoading /\ state.error = None

\* C29: the provider was called for a request exactly when at least 20
\* characters of its text precede its cursor and the client is initialized;
\* a request with fewer resolves with no suggestion
CalledWithContextOnly ==
    \A e \in hist.event :
        e.kind = "Response" =>
            \A r \in e.request :
                LET enough == Len(Slice(r.text, 0, r.cursorPosition))
                                >= MinContextLength
                IN  /\ (e.did # "notcalled") <=> (enough /\ initialized)
                    /\ ~enough => \A st \in e.after : st.suggestion = None

\* a request whose text has 20 characters, fewer of them before its cursor,
\* resolved without a call to the provider
ShortContextNotCalled ==
    \E e \in hist.event :
        /\ e.kind = "Response" /\ e.did = "notcalled"
        /\ \E r \in e.request : /\ Len(r.text) >= MinContextLength
                                  /\ r.cursorPosition < MinContextLength
        /\ state.suggestion = None

\* C30: during the cooldown, the 60000 ms that follow a throttled response,
\* no retry is pending: the retry timer and the retry data are both empty
NoRetryInCooldown ==
    \A t \in hist.throttledAt :
        now < t + cooldownDuration
            => (pendingRetryTimeout = None /\ pendingRetryData = None)

\* C31: in every state, initializeWithApiKey called with an empty or
\* whitespace-only key returns false, leaves the feature disabled with the
\* error 'API key is required', and changes neither the completion client
\* nor the stored credential; and whenever it returns false, isEnabled is
\* false and error is not null
BlankKeyRejected ==
    \A apiKey \in ApiKeys, outcome \in InitOutcomes :
        LET w == initializeWithApiKey(World, apiKey, outcome)
            result == initializeWithApiKeyResult(apiKey, outcome)
        IN  /\ Len(Trim(apiKey)) = 0
                => /\ ~result
                   /\ ~w.page.isEnabled
                   /\ w.page.error = Some(KeyRequiredError)
                   /\ w.initialized = initialized
                   /\ w.geminiApiKey = geminiApiKey
            /\ ~result => (~w.page.isEnabled /\ w.page.error # None)

\* a blank key was entered while the feature was enabled and a credential
\* was stored: the feature is disabled with the error, the credential is
\* still stored
BlankKeyEntered ==
    /\ \E e \in hist.event : e.kind = "ApiKey" /\ e.did = "" /\ e.isEnabled
    /\ ~page.isEnabled
    /\ page.error = Some(KeyRequiredError)
    /\ geminiApiKey /\ initialized

\* C32: a response that arrives while the feature is switched off sets no
\* suggestion in the controller and produces no SuggestionContext and no
\* ghost text
NoSuggestionWhileOff ==
    \A e \in hist.event :
        (e.kind = "Response" /\ ~e.isEnabled /\ ~page.isEnabled)
            => /\ \A st \in e.after : st.suggestion = None
               /\ Cleared

\* the last dispatched request is for the buffer and cursor of this state
RequestedFinal ==
    hist.request = Some([text |-> content, cursor |-> selectionStart])

\* the user typed, the feature is enabled, at least 20 characters precede
\* the cursor, no suggestion is live, no request is in flight, no cooldown
\* is active, and the last change is old enough for the debounce and the
\* longest retry delay to elapse before the clock stops
StoppedTyping ==
    /\ hist.inputs > 0
    /\ state.isEnabled
    /\ selectionStart >= MinContextLength
    /\ Cleared
    /\ inflight = <<>>
    /\ now >= rateLimitCooldownUntil
    /\ \A t \in hist.changedAt :
          t + DebounceDelay + MIN_REQUEST_INTERVAL <= EndOfTime

\* no timer is armed and no call is in flight
Quiet ==
    /\ textTimer = None /\ cursorTimer = None
    /\ pendingRetryTimeout = None
    /\ inflight = <<>>

\* from a quiet state only an input of the user leads to a dispatch: the
\* passing of time leaves the state quiet and dispatches nothing
QuietStaysQuiet ==
    [][(Quiet /\ hist'.inputs = hist.inputs)
          => (Quiet' /\ hist'.count = hist.count)]_vars

\* C33: if the user stops typing and StoppedTyping holds from then on, then
\* from some moment on the last dispatched request is the one for the final
\* buffer and cursor
EventuallyRequested == <>[]StoppedTyping => <>[]RequestedFinal

\* C34: a page load changes the stored note at no moment while the user has
\* made no input: the store holds the note the page was loaded with, and a
\* reload leaves a non-empty stored note as it is
MountKeepsNote ==
    /\ [](hist.inputs = 0 => noteContent = Rep("a", NoteLen))
    /\ [][(/\ hist'.inputs = hist.inputs + 1
           /\ \E e \in hist'.event : e.kind = "Reload"
           /\ noteContent # <<>>)
              => noteContent' = noteContent]_vars

\* C35: when Tab accepts the displayed suggestion, the buffer that results
\* holds the whole suggestion of the SuggestionContext, starting at the
\* cursor of the snapshot
TabCompletesSuggestion ==
    [][(displaySuggestion # None /\ \E e \in hist'.event : e.kind = "Tab")
          => \A ctx \in suggestionContext :
                Slice(content', ctx.cursorPosition,
                      ctx.cursorPosition + Len(ctx.suggestion))
                    = ctx.suggestion]_vars

\* C36: the handler of every settled call, whatever the provider did, sets
\* isLoading false; and isLoading is true only while a call is in flight, so
\* it is never left true with nothing to end it
LoadingEnds ==
    /\ state.isLoading <=> inflight # <<>>
    /\ \A e \in hist.event :
          e.kind = "Response" => \A st \in e.after : ~st.isLoading

\* the provider failed on the second request of the session, which was
\* dispatched after the first one had settled, and the controller is not
\* loading
FailedThenIdle ==
    /\ \E e \in hist.event :
          e.kind = "Response" /\ e.did \in {"failed", "throttled"}
    /\ hist.count >= 2
    /\ ~state.isLoading

\* the line breaks of a text, and the text after the last of them
LineBreaks(s) == Cardinality({i \in 1..Len(s) : s[i] = "\n"})

AfterLastBreak(s) ==
    LET breaks == {i \in 1..Len(s) : s[i] = "\n"}
        last == IF breaks = {} THEN 0
                ELSE CHOOSE i \in breaks : \A k \in breaks : k <= i
    IN  SubSeq(s, last + 1, Len(s))

\* C37: the overlay position is null when no suggestion is displayed;
\* otherwise its top is the top padding plus the line height for every line
\* break before the cursor, and its left is the left padding plus the
\* measured width of the text between the last of those line breaks and
\* the cursor
OverlayAtCursor ==
    LET position == getCursorPosition(World, TRUE)
        before == SubSeq(content, 1, selectionStart)
    IN  IF displaySuggestion = None THEN position = None
        ELSE position =
                Some([top |-> 240 + LineBreaks(before) * 272,
                      left |-> 240 + measureText(AfterLastBreak(before))])

\* a suggestion is displayed with the cursor on the second of three lines,
\* after a character of that line
DisplayedOnSecondLine ==
    /\ displaySuggestion # None
    /\ LineBreaks(SubSeq(content, 1, selectionStart)) = 1
    /\ LineBreaks(content) = 2
    /\ AfterLastBreak(SubSeq(content, 1, selectionStart)) # <<>>

\* the steps of the timers, of the completion calls and of the clock are
\* the steps that Fairness is stated for
FairStepsAgree ==
    [][/\ DebounceFires => DebounceStep
       /\ RetryFires => RetryStep
       /\ (\E i \in 1..Len(inflight), o \in ProviderOutcomes : Settle(i, o))
             => SettleStep
       /\ Advance => ClockStep]_vars

====
